---- MODULE Spec2Model ----
(***************************************************************************)
(* Model of the ChatCLI session loop of src/index.ts: key prompt, MCP      *)
(* initialisation, the read-eval-print loop of start(), sendMessage() and  *)
(* the step loop of the generateText call it awaits.                       *)
(*                                                                         *)
(* Strings are sequences of one-character strings, so that trim(),         *)
(* toLowerCase() and template concatenation are computed, not assumed.     *)
(***************************************************************************)
EXTENDS Integers, Sequences, FiniteSets, TLC

VARIABLES
    pc,                   \* position of start(): "start","init","read","gen","done","ended"
    apiKey,               \* this.apiKey
    mcpClient,            \* this.mcpClient: "null" or "client"
    mcpTools,             \* this.mcpTools: the set of keys of the tool mapping
    conversationHistory,  \* this.conversationHistory
    rlClosed,             \* this.rl.close() has been called
    steps,                \* number of steps the generateText call in flight has run
    responseMessages,     \* messages generated so far by the call in flight
    rawLine,              \* the last line typed at the 'You: ' prompt, untrimmed, or EndOfInput
    histBefore,           \* conversationHistory when the last line was read
    response,             \* the last string returned by sendMessage
    outcome,              \* how the last line was handled
    genCalls,             \* number of generateText calls issued
    closeCalls,           \* number of mcpClient.close() calls
    initOutcome,          \* how initializeMCP ended
    initRuns,             \* number of runs of initializeMCP
    cumTranscript,        \* total number of messages returned by the calls so far
    failedTurns,          \* number of generateText calls that threw
    thrown,               \* the value the last failed call threw
    inFlight,             \* number of generateText calls that have not returned yet
    debugMode,            \* this.debugMode
    lastStep,             \* the step passed to the last onStepFinish of the call
    stepOut,              \* the lines the last onStepFinish printed
    request,              \* the options of the last generateText call
    toolsAtInit,          \* this.mcpTools when initializeMCP returned
    resultText,           \* result.text of the last call that returned
    assistantPrints,      \* number of 'Assistant: ' lines printed
    stdinOpen             \* process.stdin has not ended

vars == <<pc, apiKey, mcpClient, mcpTools, conversationHistory, rlClosed,
          steps, responseMessages, rawLine, histBefore, response, outcome,
          genCalls, closeCalls, initOutcome, initRuns, cumTranscript,
          failedTurns, thrown,
          inFlight,
          debugMode,
          lastStep,
          stepOut,
          request,
          toolsAtInit,
          resultText,
          assistantPrints,
          stdinOpen>>

----------------------------------------------------------------------------
(* Bounds *)

MaxTurns == 2

----------------------------------------------------------------------------
(* Program constants and literals *)

MAX_STEPS == 10

STR_EXIT == <<"e", "x", "i", "t">>
STR_QUIT == <<"q", "u", "i", "t">>
STR_ERROR_PREFIX == <<"E", "r", "r", "o", "r", ":", " ">>
STR_UNKNOWN_ERROR ==
    <<"A", "n", " ", "u", "n", "k", "n", "o", "w", "n", " ", "e", "r", "r", "o", "r", " ", "o", "c", "c", "u", "r", "r", "e", "d", ".">>
STR_NO_RESPONSE ==
    <<"N", "o", " ", "r", "e", "s", "p", "o", "n", "s", "e", " ", "g", "e", "n", "e", "r", "a", "t", "e", "d", ".">>

----------------------------------------------------------------------------
(* Inputs *)

\* Lines typed at the 'You: ' prompt, as typed.
InputLines ==
    { <<>>,
      <<" ", " ">>,
      <<"e", "x", "i", "t">>,
      <<" ", "E", "X", "I", "T", " ">>,
      <<"Q", "u", "i", "t">>,
      <<"h", "i">>,
      <<" ", "e", "x", "i", "t", "s", " ">> }

\* Lines typed at the API-key prompt.
KeyLines == { <<" ", "k", " ">> }

\* Values of OPENAI_API_KEY in the environment ('' when unset).
EnvKeys == { <<>>, <<"k">> }

\* Final texts the model can produce (the empty text included).
ModelTexts == { <<>>, <<"o", "k">> }

\* Tool catalogues the server can list.
Catalogues == { {}, {"search"} }

\* Values a failed generateText call can throw.
Thrown ==
    { [isError |-> TRUE, message |-> <<"n", "e", "t">>],
      [isError |-> TRUE, message |-> <<>>],
      [isError |-> FALSE, message |-> <<>>] }

\* Values of process.env.DEBUG === 'true'.
DebugFlags == BOOLEAN

\* Serialized arguments of a tool call.
ToolArgs == { "{q:1}" }

\* Outputs of a tool result: isError true, false, or no isError at all.
ToolOutputs ==
    { [isError |-> "true"], [isError |-> "false"], [isError |-> "undefined"] }

\* What the 'You: ' prompt gets when process.stdin has ended: no line.
EndOfInput == <<"EOF">>

InitOutcomes == {"transportFail", "connectFail", "toolsFail", "ok"}

----------------------------------------------------------------------------
(* String functions *)

IsSpace(c) == c \in {" ", "\t"}

RECURSIVE TrimStart(_)
TrimStart(s) ==
    IF s = <<>> THEN <<>>
    ELSE IF IsSpace(Head(s)) THEN TrimStart(Tail(s))
    ELSE s

RECURSIVE TrimEnd(_)
TrimEnd(s) ==
    IF s = <<>> THEN <<>>
    ELSE IF IsSpace(s[Len(s)]) THEN TrimEnd(SubSeq(s, 1, Len(s) - 1))
    ELSE s

Trim(s) == TrimEnd(TrimStart(s))

ToLowerChar(c) ==
    CASE c = "E" -> "e"
      [] c = "X" -> "x"
      [] c = "I" -> "i"
      [] c = "T" -> "t"
      [] c = "Q" -> "q"
      [] c = "U" -> "u"
      [] OTHER -> c

ToLowerCase(s) == [i \in 1..Len(s) |-> ToLowerChar(s[i])]

----------------------------------------------------------------------------
(* Messages *)

UserMessage(content) == [role |-> "user", content |-> content]

\* An assistant message of a step that proposes a call of tool t.
ToolCallMessage(t) == [role |-> "assistant", content |-> <<"[", t, "]">>]

\* The tool message carrying the result of the call of tool t.
ToolResultMessage(t) == [role |-> "tool", content |-> <<"[", t, "]">>]

\* The assistant message of a step that produces text only.
TextMessage(text) == [role |-> "assistant", content |-> text]

----------------------------------------------------------------------------
(* Pure parts of start() and sendMessage() *)

\* (variant) the untrimmed answer is used
GetUserInputRaw(answer) == answer

\* getUserInput resolves with answer.trim()
GetUserInput(answer) == Trim(answer)

\* (variant) the comparison without toLowerCase()
IsExitCommandCaseSensitive(userInput) ==
    \/ userInput = STR_EXIT
    \/ userInput = STR_QUIT

IsExitCommand(userInput) ==
    \/ ToLowerCase(userInput) = STR_EXIT
    \/ ToLowerCase(userInput) = STR_QUIT

\* (variant) the blank test left out
IsBlankNever(userInput) == FALSE

IsBlank(userInput) == userInput = <<>>

\* (variant) the user message is not pushed
PushUserNothing(history, userMessage) == history

\* this.conversationHistory.push({ role: 'user', content: userMessage })
PushUser(history, userMessage) == Append(history, UserMessage(userMessage))

\* (variant) the returned messages are appended to the history
UpdateHistoryAppend(history, messages) == history \o messages

\* this.conversationHistory = result.response.messages
\* (response.messages of the 'ai' package holds the assistant and tool
\* messages the call generated, not the messages passed in)
UpdateHistory(history, messages) == messages

\* (variant) the text is returned as it is
TextOrFallbackNever(text) == text

\* result.text || 'No response generated.'
TextOrFallback(text) == IF text = <<>> THEN STR_NO_RESPONSE ELSE text

\* (variant) the catch block returns the bare message
ErrorStringBare(error) ==
    IF error.isError THEN error.message
    ELSE STR_UNKNOWN_ERROR

\* the catch block of sendMessage
ErrorString(error) ==
    IF error.isError THEN STR_ERROR_PREFIX \o error.message
    ELSE STR_UNKNOWN_ERROR

\* (variant) a stop condition that never holds
StepCountIsNever(n, limit) == FALSE

\* stepCountIs(MAX_STEPS): the call stops once it has run that many steps
StepCountIs(n, limit) == n >= limit

\* (variant) the handle is not stored
ClientAfterLost(o) == "null"

\* the handle initializeMCP leaves in this.mcpClient
ClientAfter(o) == IF o \in {"toolsFail", "ok"} THEN "client" ELSE "null"

\* (variant) the mapping is assigned before the failure is known
ToolsAfterEarly(o, listed) == listed

\* the mapping initializeMCP leaves in this.mcpTools
ToolsAfter(o, listed) == IF o = "ok" THEN listed ELSE {}

\* (variant) sendMessage() is called without await: the loop reads on
SendPositionNotAwaited == "read"

\* await this.sendMessage(userInput): start() is suspended until it returns
SendPosition == "gen"

\* (variant) the call is made without the tool mapping
GenerateRequestNoTools(history, tools) ==
    [system |-> "SYSTEM_PROMPT", messages |-> history, tools |-> {},
     maxSteps |-> MAX_STEPS]

\* the options sendMessage() passes to generateText
GenerateRequest(history, tools) ==
    [system |-> "SYSTEM_PROMPT", messages |-> history, tools |-> tools,
     maxSteps |-> MAX_STEPS]

\* (variant) start() enters the loop without initializeMCP()
InitPositionSkipped == "read"

\* await this.initializeMCP(): runs once the key is settled, before the loop
InitPosition == "init"

\* (variant) close() without the null test
ShouldCloseAlways(client) == TRUE

\* if (this.mcpClient) await this.mcpClient.close()
ShouldClose(client) == client # "null"

----------------------------------------------------------------------------
(* onStepFinish *)

\* A step without tool calls and tool results.
NoToolStep == [toolCalls |-> <<>>, toolResults |-> <<>>]

\* console.log(message): the line is printed
ConsoleLog(message) == <<message>>

\* (variant) log() without the debug test
LogAlways(debug, message) == <<message>>

\* this.log(message): the line is printed in debug mode only
Log(debug, message) == IF debug THEN <<message>> ELSE <<>>

\* JSON.stringify(result.output)
Stringify(output) == "{isError:" \o output.isError \o "}"

\* result.output?.isError || false
IsErrorResult(output) == output.isError = "true"

\* the body of step.toolCalls.forEach
CallLines(debug, call) ==
    ConsoleLog(<<"\n[Using tool: ", call.toolName, "]">>)
        \o Log(debug, <<"[Args: ", call.args, "]">>)

\* (variant) the failure line goes through log() too
ResultLinesQuiet(debug, result) ==
    IF IsErrorResult(result.output)
    THEN Log(debug, <<"[Tool failed]">>)
             \o Log(debug, <<"[Error: ", Stringify(result.output), "]">>)
    ELSE Log(debug, <<"[Tool completed successfully]">>)

\* the body of step.toolResults.forEach
ResultLines(debug, result) ==
    IF IsErrorResult(result.output)
    THEN ConsoleLog(<<"[Tool failed]">>)
             \o Log(debug, <<"[Error: ", Stringify(result.output), "]">>)
    ELSE Log(debug, <<"[Tool completed successfully]">>)

RECURSIVE ForEachCall(_, _)
ForEachCall(debug, calls) ==
    IF calls = <<>> THEN <<>>
    ELSE CallLines(debug, Head(calls)) \o ForEachCall(debug, Tail(calls))

RECURSIVE ForEachResult(_, _)
ForEachResult(debug, results) ==
    IF results = <<>> THEN <<>>
    ELSE ResultLines(debug, Head(results)) \o ForEachResult(debug, Tail(results))

\* the onStepFinish callback: the lines it prints for a step
OnStepFinish(debug, step) ==
    ForEachCall(debug, step.toolCalls) \o ForEachResult(debug, step.toolResults)

----------------------------------------------------------------------------
(* State machine *)

Init ==
    /\ pc = "start"
    /\ apiKey \in EnvKeys
    /\ mcpClient = "null"
    /\ mcpTools = {}
    /\ conversationHistory = <<>>
    /\ rlClosed = FALSE
    /\ steps = 0
    /\ responseMessages = <<>>
    /\ rawLine = <<>>
    /\ histBefore = <<>>
    /\ response = <<>>
    /\ outcome = "none"
    /\ genCalls = 0
    /\ closeCalls = 0
    /\ initOutcome = "none"
    /\ initRuns = 0
    /\ cumTranscript = 0
    /\ failedTurns = 0
    /\ thrown = [isError |-> FALSE, message |-> <<>>]
    /\ inFlight = 0
    /\ debugMode \in DebugFlags
    /\ lastStep = NoToolStep
    /\ stepOut = <<>>
    /\ request = GenerateRequest(<<>>, {})
    /\ toolsAtInit = {}
    /\ resultText = <<>>
    /\ assistantPrints = 0
    /\ stdinOpen = TRUE

\* start(): no key in the environment, promptForApiKey() stores the trimmed answer
PromptForApiKey ==
    /\ pc = "start"
    /\ apiKey = <<>>
    /\ \E key \in KeyLines : apiKey' = Trim(key)
    /\ pc' = InitPosition
    /\ UNCHANGED <<mcpClient, mcpTools, conversationHistory, rlClosed, steps,
                   responseMessages, rawLine, histBefore, response, outcome,
                   genCalls, closeCalls, initOutcome, initRuns, cumTranscript,
                   failedTurns, thrown,
                   inFlight,
                   debugMode,
                   lastStep,
                   stepOut,
                   request,
                   toolsAtInit,
                   resultText,
                   assistantPrints,
                   stdinOpen>>

\* start(): the key came from the environment
UseEnvApiKey ==
    /\ pc = "start"
    /\ apiKey # <<>>
    /\ pc' = InitPosition
    /\ UNCHANGED <<apiKey, mcpClient, mcpTools, conversationHistory, rlClosed,
                   steps, responseMessages, rawLine, histBefore, response,
                   outcome, genCalls, closeCalls, initOutcome, initRuns,
                   cumTranscript, failedTurns, thrown,
                   inFlight,
                   debugMode,
                   lastStep,
                   stepOut,
                   request,
                   toolsAtInit,
                   resultText,
                   assistantPrints,
                   stdinOpen>>

\* initializeMCP(): the transport constructor, createMCPClient or tools() may
\* throw; the catch block logs and continues.
InitializeMCP ==
    /\ pc = "init"
    /\ \E o \in InitOutcomes, listed \in Catalogues :
         /\ mcpClient' = ClientAfter(o)
         /\ mcpTools' = ToolsAfter(o, listed)
         /\ toolsAtInit' = ToolsAfter(o, listed)
         /\ initOutcome' = o
    /\ initRuns' = initRuns + 1
    /\ pc' = "read"
    /\ UNCHANGED <<apiKey, conversationHistory, rlClosed, steps,
                   responseMessages, rawLine, histBefore, response, outcome,
                   genCalls, closeCalls, cumTranscript, failedTurns, thrown,
                   inFlight,
                   debugMode,
                   lastStep,
                   stepOut,
                   request,
                   resultText,
                   assistantPrints,
                   stdinOpen>>

\* start(): a line is read and it is exit or quit
ReadExit ==
    /\ pc = "read"
    /\ stdinOpen
    /\ \E line \in InputLines :
         /\ IsExitCommand(GetUserInput(line))
         /\ rawLine' = line
    /\ histBefore' = conversationHistory
    /\ outcome' = "exit"
    /\ rlClosed' = TRUE
    /\ closeCalls' = IF ShouldClose(mcpClient) THEN closeCalls + 1 ELSE closeCalls
    /\ pc' = "done"
    /\ UNCHANGED <<apiKey, mcpClient, mcpTools, conversationHistory, steps,
                   responseMessages, response, genCalls, initOutcome, initRuns,
                   cumTranscript, failedTurns, thrown,
                   inFlight,
                   debugMode,
                   lastStep,
                   stepOut,
                   request,
                   toolsAtInit,
                   resultText,
                   assistantPrints,
                   stdinOpen>>

\* start(): a line is read and it is empty after trimming
ReadBlank ==
    /\ pc = "read"
    /\ stdinOpen
    /\ \E line \in InputLines :
         /\ ~IsExitCommand(GetUserInput(line))
         /\ IsBlank(GetUserInput(line))
         /\ rawLine' = line
    /\ histBefore' = conversationHistory
    /\ outcome' = "blank"
    /\ pc' = "read"
    /\ UNCHANGED <<apiKey, mcpClient, mcpTools, conversationHistory, rlClosed,
                   steps, responseMessages, response, genCalls, closeCalls,
                   initOutcome, initRuns, cumTranscript, failedTurns, thrown,
                   inFlight,
                   debugMode,
                   lastStep,
                   stepOut,
                   request,
                   toolsAtInit,
                   resultText,
                   assistantPrints,
                   stdinOpen>>

\* start() and sendMessage(): any other line is pushed on the history and
\* generateText is called
ReadSend ==
    /\ pc = "read"
    /\ stdinOpen
    /\ genCalls < MaxTurns
    /\ \E line \in InputLines :
         /\ ~IsExitCommand(GetUserInput(line))
         /\ ~IsBlank(GetUserInput(line))
         /\ rawLine' = line
         /\ conversationHistory' = PushUser(conversationHistory, GetUserInput(line))
         /\ request' = GenerateRequest(conversationHistory', mcpTools)
    /\ histBefore' = conversationHistory
    /\ outcome' = "pending"
    /\ genCalls' = genCalls + 1
    /\ steps' = 0
    /\ responseMessages' = <<>>
    /\ lastStep' = NoToolStep
    /\ stepOut' = <<>>
    /\ inFlight' = inFlight + 1
    /\ pc' = SendPosition
    /\ UNCHANGED <<apiKey, mcpClient, mcpTools, rlClosed, response, closeCalls,
                   initOutcome, initRuns, cumTranscript, failedTurns, thrown,
                   debugMode,
                   toolsAtInit,
                   resultText,
                   assistantPrints,
                   stdinOpen>>

\* generateText: a step in which the model calls one of the offered tools and
\* the result is fed back
ToolStep ==
    /\ pc = "gen"
    /\ ~StepCountIs(steps, MAX_STEPS)
    /\ \E t \in request.tools, a \in ToolArgs, o \in ToolOutputs :
         LET step == [toolCalls |-> <<[toolName |-> t, args |-> a]>>,
                      toolResults |-> <<[toolName |-> t, output |-> o]>>]
         IN /\ responseMessages' =
                 responseMessages \o <<ToolCallMessage(t), ToolResultMessage(t)>>
            /\ lastStep' = step
            /\ stepOut' = OnStepFinish(debugMode, step)
    /\ steps' = steps + 1
    /\ UNCHANGED <<pc, apiKey, mcpClient, mcpTools, conversationHistory,
                   rlClosed, rawLine, histBefore, response, outcome, genCalls,
                   closeCalls, initOutcome, initRuns, cumTranscript,
                   failedTurns, thrown,
                   inFlight,
                   debugMode,
                   request,
                   toolsAtInit,
                   resultText,
                   assistantPrints,
                   stdinOpen>>

\* sendMessage(): generateText has returned result
Complete(messages, text) ==
    /\ conversationHistory' = UpdateHistory(conversationHistory, messages)
    /\ resultText' = text
    /\ response' = TextOrFallback(text)
    /\ assistantPrints' = assistantPrints + 1
    /\ responseMessages' = messages
    /\ cumTranscript' = cumTranscript + Len(messages)
    /\ outcome' = "success"
    /\ inFlight' = inFlight - 1
    /\ pc' = "read"
    /\ UNCHANGED <<apiKey, mcpClient, mcpTools, rlClosed, rawLine, histBefore,
                   genCalls, closeCalls, initOutcome, initRuns, failedTurns, thrown,
                   debugMode,
                   request,
                   toolsAtInit,
                   stdinOpen>>

\* generateText: a step without tool calls ends the call
FinalStep ==
    /\ pc = "gen"
    /\ ~StepCountIs(steps, MAX_STEPS)
    /\ steps' = steps + 1
    /\ lastStep' = NoToolStep
    /\ stepOut' = OnStepFinish(debugMode, NoToolStep)
    /\ \E text \in ModelTexts :
         Complete(Append(responseMessages, TextMessage(text)), text)

\* generateText: the step budget is used up after a step with tool calls;
\* the call returns the text of that step, which is empty
BudgetStop ==
    /\ pc = "gen"
    /\ StepCountIs(steps, MAX_STEPS)
    /\ steps' = steps
    /\ UNCHANGED <<lastStep, stepOut>>
    /\ Complete(responseMessages, <<>>)

\* generateText throws in its next round trip; sendMessage() catches
Fail ==
    /\ pc = "gen"
    /\ ~StepCountIs(steps, MAX_STEPS)
    /\ \E error \in Thrown :
         /\ thrown' = error
         /\ response' = ErrorString(error)
    /\ failedTurns' = failedTurns + 1
    /\ assistantPrints' = assistantPrints + 1
    /\ outcome' = "failure"
    /\ inFlight' = inFlight - 1
    /\ pc' = "read"
    /\ UNCHANGED <<apiKey, mcpClient, mcpTools, conversationHistory, rlClosed,
                   steps, responseMessages, rawLine, histBefore, genCalls,
                   closeCalls, initOutcome, initRuns, cumTranscript,
                   debugMode,
                   lastStep,
                   stepOut,
                   request,
                   toolsAtInit,
                   resultText,
                   stdinOpen>>

\* process.stdin ends (end of a pipe, Ctrl-D) while the loop is running: the
\* readline interface closes itself. A question that is pending is never
\* answered, so start() never resumes.
StdinEnd ==
    /\ pc \in {"read", "gen"}
    /\ stdinOpen
    /\ stdinOpen' = FALSE
    /\ IF pc = "read"
       THEN /\ pc' = "ended"
            /\ rawLine' = EndOfInput
            /\ histBefore' = conversationHistory
            /\ outcome' = "eof"
       ELSE UNCHANGED <<pc, rawLine, histBefore, outcome>>
    /\ UNCHANGED <<apiKey, mcpClient, mcpTools, conversationHistory, rlClosed,
                   steps, responseMessages, response, genCalls, closeCalls,
                   initOutcome, initRuns, cumTranscript, failedTurns, thrown,
                   inFlight, debugMode, lastStep, stepOut, request,
                   toolsAtInit, resultText, assistantPrints>>

\* start(): getUserInput() after process.stdin has ended during a call:
\* rl.question() on the closed interface throws or is never answered, and
\* the loop is over without the exit branch having run.
ReadClosed ==
    /\ pc = "read"
    /\ ~stdinOpen
    /\ pc' = "ended"
    /\ rawLine' = EndOfInput
    /\ histBefore' = conversationHistory
    /\ outcome' = "eof"
    /\ UNCHANGED <<apiKey, mcpClient, mcpTools, conversationHistory, rlClosed,
                   steps, responseMessages, response, genCalls, closeCalls,
                   initOutcome, initRuns, cumTranscript, failedTurns, thrown,
                   inFlight, debugMode, lastStep, stepOut, request,
                   toolsAtInit, resultText, assistantPrints, stdinOpen>>

Next ==
    \/ PromptForApiKey
    \/ UseEnvApiKey
    \/ InitializeMCP
    \/ ReadExit
    \/ ReadBlank
    \/ ReadSend
    \/ ToolStep
    \/ FinalStep
    \/ BudgetStop
    \/ Fail
    \/ StdinEnd
    \/ ReadClosed

Spec == Init /\ [][Next]_vars

\* Each round trip of the call in flight returns.
FairSpec == Spec /\ WF_vars(ToolStep \/ FinalStep \/ BudgetStop \/ Fail)

----------------------------------------------------------------------------
(* Properties *)

IsPrefix(s, t) == Len(s) <= Len(t) /\ SubSeq(t, 1, Len(s)) = s

\* The lines of InputLines that are blank, and those that are exit or quit
\* in some letter case with surrounding blanks, written out.
BlankLines == { <<>>, <<" ", " ">> }
ExitLines ==
    { <<"e", "x", "i", "t">>,
      <<" ", "E", "X", "I", "T", " ">>,
      <<"Q", "u", "i", "t">> }

InitFailures == {"transportFail", "connectFail", "toolsFail"}

\* C1: the history held when a line was read is a prefix of the history held
\* from then on, so no earlier message of the session is lost.
HistoryAppendOnly == IsPrefix(histBefore, conversationHistory)

\* C2: while every turn has succeeded, the history length after a turn equals
\* the total number of messages returned by the calls so far, and it is not
\* less than the length before the turn.
HistoryLengthCumulative ==
    (outcome = "success" /\ failedTurns = 0) =>
        /\ Len(conversationHistory) = cumTranscript
        /\ Len(histBefore) <= Len(conversationHistory)

\* C3: after a successful call the history is exactly the message list that
\* call returned, in the same order.
HistoryIsTranscript ==
    outcome = "success" => conversationHistory = responseMessages

HistoryIsTranscriptWitness ==
    /\ outcome = "success"
    /\ histBefore # <<>>
    /\ Len(responseMessages) >= 3

\* C4: after a failed call the history is the pre-call history followed by
\* the one user message of the turn, and the loop is back at reading a line.
FailureKeepsUserMessage ==
    outcome = "failure" =>
        /\ pc = "read"
        /\ conversationHistory = Append(histBefore, UserMessage(Trim(rawLine)))

\* a second turn was served after a failed one, and failed too
FailureKeepsUserMessageWitness ==
    /\ outcome = "failure"
    /\ failedTurns = 2
    /\ Len(conversationHistory) = 2

\* C5 as stated: whatever was thrown, the returned string starts with the
\* error prefix.
ErrorAlwaysPrefixed ==
    outcome = "failure" => IsPrefix(STR_ERROR_PREFIX, response)

\* C5 as amended: an Error instance gives the prefix followed by its message,
\* any other thrown value gives the fixed string without the prefix.
ErrorStringByKind ==
    outcome = "failure" =>
        /\ thrown.isError => response = STR_ERROR_PREFIX \o thrown.message
        /\ ~thrown.isError =>
              /\ response = STR_UNKNOWN_ERROR
              /\ ~IsPrefix(STR_ERROR_PREFIX, response)

ErrorStringByKindWitness ==
    /\ outcome = "failure"
    /\ thrown.isError
    /\ thrown.message # <<>>
    /\ response = STR_ERROR_PREFIX \o thrown.message

\* C6: reading an empty or whitespace-only line issues no generation call,
\* leaves the history as it is and goes back to reading.
BlankLineSkipped ==
    [][(pc = "read" /\ rawLine' \in BlankLines) =>
          /\ genCalls' = genCalls
          /\ conversationHistory' = conversationHistory
          /\ pc' = "read"]_vars

BlankLineSkippedWitness ==
    /\ outcome = "blank"
    /\ rawLine = <<" ", " ">>
    /\ conversationHistory # <<>>

\* C7: when initializeMCP failed at any point the tool mapping is empty, the
\* loop has been entered, and a successful call returns the single text the
\* model produced (or the fallback for an empty text).
InitFailureDegrades ==
    initOutcome \in InitFailures =>
        /\ mcpTools = {}
        /\ pc \in {"read", "gen", "done", "ended"}
        /\ outcome = "success" =>
              /\ Len(responseMessages) = 1
              /\ responseMessages[1].role = "assistant"
              /\ response =
                    IF responseMessages[1].content = <<>> THEN STR_NO_RESPONSE
                    ELSE responseMessages[1].content

InitFailureDegradesWitness ==
    /\ initOutcome = "toolsFail"
    /\ outcome = "success"
    /\ response = <<"o", "k">>

\* C8: reading exit or quit, in any letter case and with surrounding blanks,
\* issues no generation call, leaves the history, closes the terminal input,
\* closes the client if there is one, and ends the loop; nothing happens
\* after the loop has ended.
ExitShutsDown ==
    [][/\ pc # "done"
       /\ (pc = "read" /\ rawLine' \in ExitLines) =>
             /\ genCalls' = genCalls
             /\ conversationHistory' = conversationHistory
             /\ rlClosed'
             /\ mcpClient # "null" => closeCalls' = closeCalls + 1
             /\ pc' = "done"]_vars

ExitShutsDownWitness ==
    /\ pc = "done"
    /\ rawLine = <<" ", "E", "X", "I", "T", " ">>
    /\ rlClosed
    /\ closeCalls = 1
    /\ conversationHistory # <<>>

\* C9 as stated: close() is called at most once, and never when
\* initializeMCP took its failure path.
CloseNeverAfterInitFailure ==
    /\ closeCalls <= 1
    /\ initOutcome \in InitFailures => closeCalls = 0

\* C9 as amended: close() is called at most once and only when
\* createMCPClient succeeded; it is never called when the transport or the
\* connection failed, and it is called at exit when only tools() failed.
CloseOnlyWithClient ==
    /\ closeCalls <= 1
    /\ closeCalls = 1 => initOutcome \in {"ok", "toolsFail"}
    /\ initOutcome \in {"transportFail", "connectFail"} => closeCalls = 0
    /\ (pc = "done" /\ initOutcome = "toolsFail") => closeCalls = 1

CloseOnlyWithClientWitness ==
    /\ pc = "done"
    /\ initOutcome = "toolsFail"
    /\ mcpTools = {}
    /\ closeCalls = 1

\* C10: a call never runs more than MAX_STEPS steps, and every call in
\* flight ends, by success or failure, with the loop back at reading.
StepBudgetRespected ==
    /\ [](steps <= MAX_STEPS)
    /\ (pc = "gen") ~> (pc = "read")

\* the budget stopped a call after MAX_STEPS tool rounds
StepBudgetRespectedWitness ==
    /\ outcome = "success"
    /\ steps = MAX_STEPS
    /\ Len(responseMessages) = 2 * MAX_STEPS
    /\ response = STR_NO_RESPONSE

\* C11: at most one generation call is in flight, and while one is in
\* flight no line is read and no further call is started.
OneCallInFlight ==
    /\ [](inFlight <= 1)
    /\ [][inFlight > 0 => (rawLine' = rawLine /\ genCalls' = genCalls)]_vars

\* the second call of a session is in flight, in a tool round
OneCallInFlightWitness ==
    /\ inFlight = 1
    /\ genCalls = 2
    /\ steps > 0

Lines(out) == {out[i] : i \in 1..Len(out)}
Calls(step) == {step.toolCalls[i] : i \in 1..Len(step.toolCalls)}
Results(step) == {step.toolResults[i] : i \in 1..Len(step.toolResults)}

LineUsing(t) == <<"\n[Using tool: ", t, "]">>
LineFailed == <<"[Tool failed]">>
LineCompleted == <<"[Tool completed successfully]">>

\* C12 as stated: whatever the debug flag, every proposed call is announced
\* with the tool's name, every errored result with the failure line and every
\* other result with the success line.
EveryResultAnnounced ==
    /\ \A c \in Calls(lastStep) : LineUsing(c.toolName) \in Lines(stepOut)
    /\ \A r \in Results(lastStep) :
          IF r.output.isError = "true"
          THEN LineFailed \in Lines(stepOut)
          ELSE LineCompleted \in Lines(stepOut)

\* C12 as amended: calls and errored results are announced whatever the debug
\* flag; the success line of a result that is not errored is printed in debug
\* mode only.
ResultAnnouncedByKind ==
    /\ \A c \in Calls(lastStep) : LineUsing(c.toolName) \in Lines(stepOut)
    /\ \A r \in Results(lastStep) :
          IF r.output.isError = "true"
          THEN LineFailed \in Lines(stepOut) /\ LineCompleted \notin Lines(stepOut)
          ELSE /\ LineFailed \notin Lines(stepOut)
               /\ LineCompleted \in Lines(stepOut) <=> debugMode

\* debug is off and a step reported an errored result
ResultAnnouncedByKindWitness ==
    /\ ~debugMode
    /\ Len(lastStep.toolResults) = 1
    /\ lastStep.toolResults[1].output.isError = "true"
    /\ stepOut = <<LineUsing("search"), LineFailed>>

\* C16: with debug off no argument line and no error-payload line is printed;
\* with debug on there is an argument line for every call and a payload line
\* for every errored result.
RawDataOnlyInDebug ==
    /\ ~debugMode =>
          \A l \in Lines(stepOut) : l[1] \notin {"[Args: ", "[Error: "}
    /\ debugMode =>
          /\ \A c \in Calls(lastStep) :
                <<"[Args: ", c.args, "]">> \in Lines(stepOut)
          /\ \A r \in Results(lastStep) :
                r.output.isError = "true" =>
                    <<"[Error: ", "{isError:true}", "]">> \in Lines(stepOut)

\* debug is on and a step reported an errored result
RawDataOnlyInDebugWitness ==
    /\ debugMode
    /\ Len(lastStep.toolResults) = 1
    /\ lastStep.toolResults[1].output.isError = "true"
    /\ Len(stepOut) = 4

\* C13: once initializeMCP has returned the tool mapping is the one it left,
\* and every generation request carries that mapping.
ToolMappingFrozen ==
    pc \notin {"start", "init"} =>
        /\ mcpTools = toolsAtInit
        /\ genCalls > 0 => request.tools = toolsAtInit

\* the second request of a session carries the listed tool
ToolMappingFrozenWitness ==
    /\ genCalls = 2
    /\ toolsAtInit = {"search"}
    /\ request.tools = {"search"}
    /\ outcome = "success"

SendLines == { <<"h", "i">>, <<" ", "e", "x", "i", "t", "s", " ">> }
TypedText(line) ==
    IF line = <<"h", "i">> THEN <<"h", "i">> ELSE <<"e", "x", "i", "t", "s">>

\* C15: a line that is neither blank nor an exit command starts exactly one
\* generation request, whose messages are the pre-turn history followed by
\* the trimmed line as a user message; every request is answered by exactly
\* one 'Assistant:' line before the next line is read.
OneRequestPerLine ==
    /\ [][(pc = "read" /\ rawLine' \in SendLines) =>
             /\ genCalls' = genCalls + 1
             /\ request'.messages =
                    Append(conversationHistory, UserMessage(TypedText(rawLine')))
             /\ assistantPrints' = assistantPrints]_vars
    /\ [](assistantPrints = genCalls - inFlight)
    /\ [](pc = "read" => inFlight = 0)

\* the line ' exits ' was sent as the second turn and answered
OneRequestPerLineWitness ==
    /\ pc = "read"
    /\ rawLine = <<" ", "e", "x", "i", "t", "s", " ">>
    /\ genCalls = 2
    /\ assistantPrints = 2
    /\ Len(request.messages) >= 2

\* C17: initializeMCP runs exactly once, before any line is read and before
\* any generation call, and never again; the client and the terminal input
\* are closed at most once, and only by the exit command.
InitOnceTeardownOnce ==
    /\ initRuns <= 1
    /\ pc \notin {"start", "init"} => initRuns = 1
    /\ initRuns = 0 => (genCalls = 0 /\ outcome = "none")
    /\ closeCalls <= 1
    /\ (rlClosed \/ closeCalls > 0) => (pc = "done" /\ rawLine \in ExitLines)

\* a session with two calls was closed by an exit command
InitOnceTeardownOnceWitness ==
    /\ pc = "done"
    /\ initRuns = 1
    /\ genCalls = 2
    /\ rlClosed
    /\ closeCalls = 1

\* C18: whenever the loop is over, the last thing read was exit or quit.
LoopEndsOnlyByExit ==
    pc \in {"done", "ended"} => rawLine \in ExitLines

\* C19: a non-empty tool mapping implies a non-null client handle.
ToolsImplyClient == mcpTools # {} => mcpClient # "null"

\* a tool of the mapping was called while the handle was set
ToolsImplyClientWitness ==
    /\ mcpTools = {"search"}
    /\ mcpClient = "client"
    /\ Len(lastStep.toolCalls) = 1

====
